---- MODULE Spec2Model ----
(***************************************************************************)
(* BrainBuddy (src/brainbuddy_app.py): a Streamlit script that is run from *)
(* top to bottom once per user interaction of a browser session.  The      *)
(* model covers the usage ledger (.usage.json), the paywall gate, the      *)
(* answer engines (Ollama -> OpenAI -> template) and the premium store     *)
(* (.pro.json) with the Stripe return handler.                             *)
(*                                                                         *)
(* Python values are modelled as follows.  A dict is a function with a     *)
(* finite domain.  A text (str shown to the user) is a sequence of lines,  *)
(* a line a sequence of string pieces; the empty str is the empty          *)
(* sequence.  None has one sentinel per slot type (NoneText, NoneErr,      *)
(* None) because TLC compares only values of the same type.                *)
(*                                                                         *)
(* Spec is the app: two sessions, two identities, two days, a daily limit  *)
(* of 2.  A step of a session is a stretch of its script run between two   *)
(* accesses to a shared document or blocking calls.  SpecQuota is the app  *)
(* on one day with the answers shown to each identity counted.             *)
(* SpecLedger, SpecAnswer and SpecPro drive the usage ledger, get_answer   *)
(* and the Stripe return handler on their own, over all their inputs.      *)
(***************************************************************************)
EXTENDS Integers, Sequences, FiniteSets, TLC

VARIABLES
    usageFile,   \* the document at USAGE_PATH
    proFile,     \* the document at PRO_PATH
    clock,       \* the server's local date, in days
    pc,          \* per session: the position of its script run
    user,        \* per session: st.session_state.user
    db,          \* per run: the module-level db = load_usage()
    today,       \* per run: today = today_key()
    used_today,  \* per run
    remaining,   \* per run
    limit,       \* per run: the module-level FREE_DAILY_LIMIT
    gate,        \* per run: outcome of the paywall gate (line 210)
    q,           \* per run: the question read at line 214
    explain,     \* per run: the value of st.button("Explain") (line 213)
    incCalls,    \* per run: number of inc_count calls made (history)
    answer,      \* per run: the text handed to st.markdown (line 219)
    pro_db,      \* per run: pro_db = load_pro()
    is_pro,      \* per run
    proAtStart,  \* per run: the identity had a record in PRO_PATH at line 103 (history)
    delivered,   \* per observed identity: answers shown by line 219 on the
                 \* current day (history)
    ldb,         \* ledger harness: a document driven by inc_count alone
    nInc,        \* ledger harness: increments applied per (uid, day)
    ga,          \* answer harness: inputs and result of one get_answer call
    sr           \* premium harness: inputs and result of one Stripe return

vars == <<usageFile, proFile, clock, pc, user, db, today, used_today,
          remaining, limit, gate, q, explain, incCalls, answer, pro_db, is_pro,
          proAtStart, delivered,
          ldb, nInc, ga, sr>>

appVars == <<usageFile, proFile, clock, pc, user, db, today, used_today,
             remaining, limit, gate, q, explain, incCalls, answer, pro_db, is_pro,
             proAtStart, delivered>>

-----------------------------------------------------------------------------
(* Bounds of the model *)

MaxInc == 3          \* ledger harness: increments per (uid, day)

\* Two browser sessions; the clock runs over two days
Sessions == {"s1", "s2"}
Days == {1, 2}

-----------------------------------------------------------------------------
(* Python helpers *)

None == "None"
NoneErr == <<"None">>
NoneText == << <<"None">> >>
EmptyDict == [k \in {} |-> 0]

Max(a, b) == IF a >= b THEN a ELSE b

\* d[k] = v on a dict
DictSet(d, k, v) == [x \in (DOMAIN d) \cup {k} |-> IF x = k THEN v ELSE d[x]]

\* d.get(k, default)
DictGet(d, k, default) == IF k \in DOMAIN d THEN d[k] ELSE default

\* truthiness of a str-or-None content / err
TruthyText(c) == c # NoneText /\ c # <<>>
TruthyErr(e) == e # NoneErr /\ e # <<>>

-----------------------------------------------------------------------------
(* Config / Environment (lines 26-45) *)

\* line 28: int(os.getenv("FREE_DAILY_LIMIT", "5")); the deployment modelled
\* sets FREE_DAILY_LIMIT=2
FREE_DAILY_LIMIT == 2
ProLimit == 1000000000
ProRemaining == 999999

-----------------------------------------------------------------------------
(* Auth (lines 57-73) *)

\* the nicknames typed; sessions being interchangeable, s1 is the one that
\* signs in as " MattJ"
Labels == {"mattj", " MattJ", "ann", "  "}
LabelsOf(s) == IF s = "s1" THEN {" MattJ", "  "} ELSE {"mattj", "ann", "  "}

\* str.strip()
strip(s) ==
    CASE s = " MattJ" -> "MattJ"
      [] s = "  " -> ""
      [] s = "   " -> ""
      [] s = " osmosis " -> "osmosis"
      [] OTHER -> s

\* str.lower()
lower(s) ==
    CASE s = "MattJ" -> "mattj"
      [] s = " MattJ" -> " mattj"
      [] OTHER -> s

\* sha256(...).hexdigest()[:16], injective on the labels of the model
sha256_16(s) == <<"sha256/16", s>>

uhash(name) == sha256_16(lower(strip(name)))

NoUser == [name |-> "", id |-> sha256_16("")]

Uids == {uhash(l) : l \in {l \in Labels : strip(l) # ""}}

-----------------------------------------------------------------------------
(* Usage tracking (lines 78-106) *)

\* A stored document: absent, unparseable, or a JSON object
AbsentFile == [kind |-> "absent", doc |-> EmptyDict]
GarbageFile == [kind |-> "garbage", doc |-> EmptyDict]
JsonFile(d) == [kind |-> "json", doc |-> d]

\* What json.load gives for a document that parses to something else than an
\* object (a list, a number, a string, null)
NotADict == [k \in {<<"json", "not an object">>} |-> EmptyDict]

load_usage(file) == IF file.kind = "json" THEN file.doc ELSE EmptyDict

save_usage(d) == JsonFile(d)

today_key(c) == <<"%Y-%m-%d", c>>

get_count(d, uid, day) == DictGet(DictGet(d, uid, EmptyDict), day, 0)

\* line 95 on a value without .get: AttributeError
get_count_raises(d, uid, day) == d = NotADict

\* a variant of inc_count that counts a request twice
inc_count_off(d, uid, day) ==
    LET d1 == IF uid \in DOMAIN d THEN d ELSE DictSet(d, uid, EmptyDict)
    IN  DictSet(d1, uid, DictSet(d1[uid], day, DictGet(d1[uid], day, 0) + 2))

\* a variant of inc_count that rebuilds the identity's entry from the one day
inc_count_dropdays(d, uid, day) ==
    DictSet(d, uid, DictSet(EmptyDict, day, get_count(d, uid, day) + 1))

\* the dict after inc_count; its return value is get_count of the result
inc_count(d, uid, day) ==
    LET d1 == IF uid \in DOMAIN d THEN d ELSE DictSet(d, uid, EmptyDict)
    IN  DictSet(d1, uid, DictSet(d1[uid], day, DictGet(d1[uid], day, 0) + 1))

\* a variant of line 106 without max(0, ...)
remaining_unclamped(lim, used) == lim - used

\* line 106
remaining_of(lim, used) == Max(0, lim - used)

\* line 210
paywall_gate(rem) == IF rem <= 0 THEN "Denied" ELSE "Allowed"

-----------------------------------------------------------------------------
(* Answer engines (lines 117-195) *)

MinDetail == 3
MaxDetail == 8
DetailLevels == MinDetail..MaxDetail
Tones == {"simple", "normal", "exam-ready"}
Questions == {"", "   ", "photosynthesis", " osmosis "}

NumStr(i) == <<"1", "2", "3", "4", "5", "6", "7", "8", "9", "10">>[i]

Indent == "    "

bullet(i) == <<NumStr(i), ". Key idea ", NumStr(i),
               ": explain plainly with a short example.">>

\* a variant of line 121 with range(1, points)
bullets_short(points) == [i \in 1..(points - 1) |-> bullet(i)]

\* line 121
bullets(points) == [i \in 1..points |-> bullet(i)]

steps == << <<"1) Restate the question in your own words.">>,
            <<"2) Identify key terms and define them simply.">>,
            <<"3) Connect terms (cause/effect, compare/contrast).">>,
            <<"4) Give a short example or analogy.">>,
            <<"5) Summarize in 2-3 sentences.">> >>

study == << <<"- Make 5 flashcards: term -> definition.">>,
            <<"- Write a 3-sentence summary from memory.">>,
            <<"- Do a 2-minute 'teach-back' out loud.">> >>

\* the lines of the template; join() puts Indent and "- " before each bullet,
\* and only the first step and the first study item after an Indent
local_template_answer(question, points, tone) ==
    IF strip(question) = ""
    THEN << <<"Type something first">> >>
    ELSE << <<>>,
            <<Indent, "Here's a ", tone, " explanation of **", strip(question), "**:">>,
            <<>>,
            <<Indent, "**Main points to know:**">> >>
         \o [i \in 1..Max(Len(bullets(points)), 1) |->
                IF i <= Len(bullets(points))
                THEN <<Indent, "- ">> \o bullets(points)[i]
                ELSE <<Indent, "- ">>]
         \o << <<>>,
               <<Indent, "**How to solve / study this quickly:**">> >>
         \o [i \in 1..Len(steps) |->
                IF i = 1 THEN <<Indent>> \o steps[i] ELSE steps[i]]
         \o << <<>>,
               <<Indent, "**Mini study plan (5-10 minutes):**">> >>
         \o [i \in 1..Len(study) |->
                IF i = 1 THEN <<Indent>> \o study[i] ELSE study[i]]
         \o << <<>> >>

\* What the Ollama server does with the POST of line 159
OllamaOutcomes == {"transport_error", "timeout", "http_error", "malformed_body",
                   "no_content", "empty_text", "text"}
OllamaText == << <<"text generated by the local model">> >>

\* the try body, lines 150-162: the value returned or the exception raised
ollama_chat(outcome) ==
    CASE outcome = "transport_error" ->
            [raised |-> TRUE, exc |-> "ConnectionError", value |-> NoneText]
      [] outcome = "timeout" ->
            [raised |-> TRUE, exc |-> "Timeout", value |-> NoneText]
      [] outcome = "http_error" ->
            [raised |-> TRUE, exc |-> "HTTPError", value |-> NoneText]
      [] outcome = "malformed_body" ->
            [raised |-> TRUE, exc |-> "JSONDecodeError", value |-> NoneText]
      [] outcome = "no_content" ->
            [raised |-> FALSE, exc |-> None, value |-> <<>>]
      [] outcome = "empty_text" ->
            [raised |-> FALSE, exc |-> None, value |-> <<>>]
      [] outcome = "text" ->
            [raised |-> FALSE, exc |-> None, value |-> OllamaText]

\* a variant of answer_with_ollama without its try/except
answer_with_ollama_noexcept(question, tone, outcome) ==
    LET b == ollama_chat(outcome)
    IN  [content |-> b.value, err |-> NoneErr, raised |-> b.raised,
         net |-> <<"ollama">>]

\* lines 147-164: (content, err), whether an exception leaves the function,
\* and the network calls made
answer_with_ollama(question, tone, outcome) ==
    LET b == ollama_chat(outcome)
    IN  IF b.raised
        THEN [content |-> NoneText, err |-> <<"Ollama error: ", b.exc>>,
              raised |-> FALSE, net |-> <<"ollama">>]
        ELSE [content |-> b.value, err |-> NoneErr,
              raised |-> FALSE, net |-> <<"ollama">>]

ApiKeys == {None, "", "sk-test"}
OpenAIOutcomes == {"import_error", "api_error", "no_choices", "null_content",
                   "empty_text", "text"}
OpenAIText == << <<"text generated by the hosted model">> >>

\* the try body, lines 171-178
openai_chat(outcome) ==
    CASE outcome = "import_error" ->
            [raised |-> TRUE, exc |-> "ImportError", value |-> NoneText, net |-> <<>>]
      [] outcome = "api_error" ->
            [raised |-> TRUE, exc |-> "APIError", value |-> NoneText, net |-> <<"openai">>]
      [] outcome = "no_choices" ->
            [raised |-> TRUE, exc |-> "IndexError", value |-> NoneText, net |-> <<"openai">>]
      [] outcome = "null_content" ->
            [raised |-> FALSE, exc |-> None, value |-> NoneText, net |-> <<"openai">>]
      [] outcome = "empty_text" ->
            [raised |-> FALSE, exc |-> None, value |-> <<>>, net |-> <<"openai">>]
      [] outcome = "text" ->
            [raised |-> FALSE, exc |-> None, value |-> OpenAIText, net |-> <<"openai">>]

\* a variant of answer_with_openai without the test of line 168
answer_with_openai_nokeycheck(question, tone, key, outcome) ==
    LET b == openai_chat(outcome)
    IN  IF b.raised
        THEN [content |-> NoneText, err |-> <<"OpenAI error: ", b.exc>>,
              raised |-> FALSE, net |-> <<"openai">>]
        ELSE [content |-> b.value, err |-> NoneErr,
              raised |-> FALSE, net |-> <<"openai">>]

\* a variant of answer_with_openai that gives no reason when the key is unset
answer_with_openai_silent(question, tone, key, outcome) ==
    IF key = None \/ key = ""
    THEN [content |-> NoneText, err |-> NoneErr, raised |-> FALSE, net |-> <<>>]
    ELSE answer_with_openai_nokeycheck(question, tone, key, outcome)

\* lines 166-180
answer_with_openai(question, tone, key, outcome) ==
    IF key = None \/ key = ""
    THEN [content |-> NoneText, err |-> <<"No OpenAI API key set.">>,
          raised |-> FALSE, net |-> <<>>]
    ELSE LET b == openai_chat(outcome)
         IN  IF b.raised
             THEN [content |-> NoneText, err |-> <<"OpenAI error: ", b.exc>>,
                   raised |-> FALSE, net |-> b.net]
             ELSE [content |-> b.value, err |-> NoneErr,
                   raised |-> FALSE, net |-> b.net]

\* st.info(err) when err is truthy (lines 188-189, 193-194)
info(err) == IF TruthyErr(err) THEN <<err>> ELSE <<>>

\* get_answer that asks the hosted provider first
get_answer_hostedfirst(question, points, tone, USE_OLLAMA, OPENAI_API_KEY, oOut, hOut) ==
    LET h == answer_with_openai(question, tone, OPENAI_API_KEY, hOut)
    IN  IF TruthyText(h.content)
        THEN [text |-> h.content, raised |-> FALSE, source |-> "openai",
              called |-> <<"openai">>, net |-> h.net, notices |-> <<>>]
        ELSE [text |-> local_template_answer(question, points, tone),
              raised |-> FALSE, source |-> "template",
              called |-> <<"openai", "template">>, net |-> h.net,
              notices |-> info(h.err)]

\* lines 182-195.  text: the value returned (NoneText when an exception
\* leaves get_answer); called: the engines invoked, in order; net: the
\* network calls made, in order; notices: the st.info messages, in order
get_answer(question, points, tone, USE_OLLAMA, OPENAI_API_KEY, oOut, hOut) ==
    LET o == IF USE_OLLAMA
             THEN answer_with_ollama(question, tone, oOut)
             ELSE [content |-> NoneText, err |-> NoneErr, raised |-> FALSE,
                   net |-> <<>>]
        oCalled == IF USE_OLLAMA THEN <<"ollama">> ELSE <<>>
        oNotice == IF USE_OLLAMA THEN info(o.err) ELSE <<>>
        h == answer_with_openai(question, tone, OPENAI_API_KEY, hOut)
    IN  IF o.raised
        THEN [text |-> NoneText, raised |-> TRUE, source |-> "none",
              called |-> oCalled, net |-> o.net, notices |-> <<>>]
        ELSE IF USE_OLLAMA /\ TruthyText(o.content)
        THEN [text |-> o.content, raised |-> FALSE, source |-> "ollama",
              called |-> oCalled, net |-> o.net, notices |-> <<>>]
        ELSE IF h.raised
        THEN [text |-> NoneText, raised |-> TRUE, source |-> "none",
              called |-> oCalled \o <<"openai">>, net |-> o.net \o h.net,
              notices |-> oNotice]
        ELSE IF TruthyText(h.content)
        THEN [text |-> h.content, raised |-> FALSE, source |-> "openai",
              called |-> oCalled \o <<"openai">>, net |-> o.net \o h.net,
              notices |-> oNotice]
        ELSE [text |-> local_template_answer(question, points, tone),
              raised |-> FALSE, source |-> "template",
              called |-> oCalled \o <<"openai", "template">>,
              net |-> o.net \o h.net,
              notices |-> oNotice \o info(h.err)]

-----------------------------------------------------------------------------
(* Premium store and Stripe return (lines 225-259) *)

load_pro(file) == IF file.kind = "json" THEN file.doc ELSE EmptyDict

save_pro(d) == JsonFile(d)

\* What st.query_params.get("session_id", [None]) returns: the default, a
\* list of values, or (the mapping API) the value itself, a str that [0]
\* indexes by character
CheckoutSessions == {"cs_A"}
QueryGetResults == { <<None>>, <<"cs_A">>, <<"c", "s", "_", "A">> }

\* the checkout session objects Stripe may return
StripeObjects == [payment_status : {"paid", "unpaid"},
                  status : {"complete", "open"},
                  mode : {"payment", "subscription"},
                  subscription : {None, "sub_1"}]

\* stripe.checkout.Session.retrieve(session_id): an object, or an exception
\* (transport error, or no such session)
StripeError == [payment_status |-> "raised", status |-> "raised",
                mode |-> "raised", subscription |-> None]
retrieve(session_id) ==
    IF session_id \in CheckoutSessions
    THEN StripeObjects \cup {StripeError}
    ELSE {StripeError}

\* a variant of line 248 that takes any outcome of the lookup for a payment
accepts_any(s) == TRUE

\* line 248
accepts(s) ==
    s # StripeError
    /\ (\/ s.payment_status = "paid"
        \/ s.status = "complete"
        \/ (s.mode = "subscription" /\ s.subscription # None))

\* time.time(): the model does not tell one instant from another
time_time == "now"

\* lines 244-254 of a run for identity uid, with pro_db0 and is_pro0 from
\* lines 239-240, file the document at PRO_PATH and obj what retrieve() gives:
\* the run's pro_db and is_pro and the document afterwards, and the message
\* shown
stripe_return(pro_db0, is_pro0, file, uid, session_id, configured, obj) ==
    LET skip == [pro_db |-> pro_db0, is_pro |-> is_pro0, file |-> file,
                 shown |-> "none", looked_up |-> FALSE]
    IN  IF session_id # None /\ configured
        THEN IF accepts(obj)
             THEN LET d == DictSet(pro_db0, uid,
                                   [ts |-> time_time, session |-> session_id])
                  IN  [pro_db |-> d, is_pro |-> TRUE, file |-> save_pro(d),
                       shown |-> "success", looked_up |-> TRUE]
             ELSE IF obj = StripeError
                  THEN \* line 253-254: st.info("Stripe check error: ...")
                       [skip EXCEPT !.shown = "info", !.looked_up = TRUE]
                  ELSE [skip EXCEPT !.looked_up = TRUE]
        ELSE skip

-----------------------------------------------------------------------------
(* The script run of a session *)

\* the count of delivered answers is kept for the identities under
\* observation, up to one more than the limit
NoneObserved == [u \in {} |-> 0]
MaxDelivered == FREE_DAILY_LIMIT + 1
Delivered(count, uid) ==
    IF uid \in DOMAIN count /\ count[uid] < MaxDelivered
    THEN [count EXCEPT ![uid] = @ + 1]
    ELSE count

\* The ledger at deployment: no file yet, a file that holds a JSON list, or
\* one left by a run under a higher FREE_DAILY_LIMIT
InitialLedgers ==
    {AbsentFile, JsonFile(NotADict)} \cup
    {JsonFile(DictSet(EmptyDict, u,
                      DictSet(EmptyDict, today_key(1), FREE_DAILY_LIMIT + 1))) :
        u \in {uhash("mattj")}}

DayKeys == {today_key(d) : d \in Days}

NoCounts == [k \in Uids \X DayKeys |-> 0]

NoResult == [text |-> NoneText, raised |-> FALSE, source |-> "none",
             called |-> <<>>, net |-> <<>>, notices |-> <<>>]

NoReturn == [phase |-> "idle", file |-> AbsentFile, uid |-> sha256_16(""),
             got |-> <<None>>, configured |-> FALSE, obj |-> StripeError,
             res |-> [pro_db |-> EmptyDict, is_pro |-> FALSE,
                      file |-> AbsentFile, shown |-> "none",
                      looked_up |-> FALSE]]

HarnessIdle ==
    /\ ldb = AbsentFile
    /\ nInc = [start |-> AbsentFile, n |-> NoCounts]
    /\ ga = [phase |-> "idle", question |-> "", points |-> MinDetail,
             tone |-> "simple", USE_OLLAMA |-> FALSE, OPENAI_API_KEY |-> None,
             oOut |-> "text", hOut |-> "text", res |-> NoResult]
    /\ sr = NoReturn

AppStart ==
    /\ proFile = AbsentFile
    /\ clock = 1
    /\ pc = [s \in Sessions |-> "rest"]
    /\ user = [s \in Sessions |-> NoUser]
    /\ db = [s \in Sessions |-> EmptyDict]
    /\ today = [s \in Sessions |-> today_key(0)]
    /\ used_today = [s \in Sessions |-> 0]
    /\ remaining = [s \in Sessions |-> 0]
    /\ limit = [s \in Sessions |-> FREE_DAILY_LIMIT]
    /\ gate = [s \in Sessions |-> None]
    /\ q = [s \in Sessions |-> ""]
    /\ explain = [s \in Sessions |-> FALSE]
    /\ incCalls = [s \in Sessions |-> 0]
    /\ answer = [s \in Sessions |-> NoneText]
    /\ pro_db = [s \in Sessions |-> EmptyDict]
    /\ is_pro = [s \in Sessions |-> FALSE]
    /\ proAtStart = [s \in Sessions |-> FALSE]

Init ==
    /\ usageFile \in InitialLedgers
    /\ AppStart
    /\ delivered = NoneObserved
    /\ HarnessIdle

\* midnight passes on the server
Tick ==
    /\ clock + 1 \in Days
    /\ clock' = clock + 1
    /\ delivered' = [u \in DOMAIN delivered |-> 0]
    /\ UNCHANGED <<usageFile, proFile, pc, user, db, today, used_today,
                   remaining, limit, gate, q, explain, incCalls, answer, pro_db, is_pro, proAtStart,
                   ldb, nInc, ga, sr>>

\* lines 60-71: the run of a session that is not signed in
SignIn(s) ==
    /\ pc[s] = "rest"
    /\ user[s] = NoUser
    /\ \E username \in LabelsOf(s) :
          /\ strip(username) # ""
          /\ user' = [user EXCEPT ![s] = [name |-> strip(username),
                                          id |-> uhash(username)]]
    /\ UNCHANGED <<usageFile, proFile, clock, delivered, pc, db, today, used_today,
                   remaining, limit, gate, q, explain, incCalls, answer, pro_db, is_pro, proAtStart,
                   ldb, nInc, ga, sr>>

\* lines 73-106 (and line 28): a run of a signed-in session starts
RunStart(s) ==
    /\ pc[s] = "rest"
    /\ user[s] # NoUser
    /\ LET d == load_usage(usageFile)
           used == get_count(d, user[s].id, today_key(clock))
       IN  /\ db' = [db EXCEPT ![s] = d]
           /\ today' = [today EXCEPT ![s] = today_key(clock)]
           /\ IF get_count_raises(d, user[s].id, today_key(clock))
              THEN \* the run dies at line 105 with the exception
                   /\ pc' = [pc EXCEPT ![s] = "raised"]
                   /\ UNCHANGED <<used_today, limit, remaining, proAtStart>>
              ELSE /\ used_today' = [used_today EXCEPT ![s] = used]
                   /\ limit' = [limit EXCEPT ![s] = FREE_DAILY_LIMIT]
                   /\ remaining' = [remaining EXCEPT ![s] =
                                       remaining_of(FREE_DAILY_LIMIT, used)]
                   /\ proAtStart' = [proAtStart EXCEPT ![s] =
                                        user[s].id \in DOMAIN load_pro(proFile)]
                   /\ pc' = [pc EXCEPT ![s] = "gate"]
    /\ UNCHANGED <<usageFile, proFile, clock, delivered, user, gate, q, explain, incCalls, answer,
                   pro_db, is_pro, ldb, nInc, ga, sr>>

\* a variant of the Explain handler without line 217
ExplainNoCharge(s, question) ==
    /\ q' = [q EXCEPT ![s] = question]
    /\ pc' = [pc EXCEPT ![s] = "answer"]
    /\ UNCHANGED <<usageFile, db, incCalls>>

\* lines 216-218: consume one credit, then go on to get_answer
Explain(s, question) ==
    LET d == inc_count(db[s], user[s].id, today[s])
    IN  /\ db' = [db EXCEPT ![s] = d]
        /\ usageFile' = save_usage(d)
        /\ incCalls' = [incCalls EXCEPT ![s] = @ + 1]
        /\ q' = [q EXCEPT ![s] = question]
        /\ pc' = [pc EXCEPT ![s] = "answer"]

\* a variant of the Denied branch that consumes a credit
DeniedCharges(s) ==
    LET d == inc_count(db[s], user[s].id, today[s])
    IN  /\ db' = [db EXCEPT ![s] = d]
        /\ usageFile' = save_usage(d)
        /\ pc' = [pc EXCEPT ![s] = "pro"]
        /\ UNCHANGED <<q, explain, incCalls>>

\* line 211: the warning; nothing else
Denied(s) ==
    /\ pc' = [pc EXCEPT ![s] = "pro"]
    /\ UNCHANGED <<usageFile, db, q, explain, incCalls>>

\* line 201: what the text area holds in the runs of the model
TypedQuestions == {"   ", "photosynthesis"}

\* a variant of line 214 that takes every text for a question
blank_never(text) == FALSE

\* line 214: not q.strip()
blank(text) == strip(text) = ""

\* lines 214-215: "Type a question first."; nothing else
TypeAQuestionFirst(s, question) ==
    /\ q' = [q EXCEPT ![s] = question]
    /\ pc' = [pc EXCEPT ![s] = "pro"]
    /\ UNCHANGED <<usageFile, db, incCalls>>

\* lines 209-218: the paywall gate and the Explain button
Gate(s) ==
    /\ pc[s] = "gate"
    /\ gate' = [gate EXCEPT ![s] = paywall_gate(remaining[s])]
    /\ IF paywall_gate(remaining[s]) = "Denied"
       THEN Denied(s)
       ELSE \E clicked \in BOOLEAN, question \in TypedQuestions :
               /\ explain' = [explain EXCEPT ![s] = clicked]
               /\ IF clicked
                  THEN IF blank(question)
                       THEN TypeAQuestionFirst(s, question)
                       ELSE Explain(s, question)
                  ELSE \* the button is not clicked in this run
                       /\ pc' = [pc EXCEPT ![s] = "pro"]
                       /\ UNCHANGED <<usageFile, db, q, incCalls>>
    /\ UNCHANGED <<proFile, clock, delivered, user, today, used_today, remaining, limit,
                   answer, pro_db, is_pro, proAtStart, ldb, nInc, ga, sr>>

\* line 205, 207: the widgets' values
SliderDefault == 5

\* line 219: st.markdown(get_answer(q, max_points, tone)); the environment
\* (lines 31, 36) and the providers' behaviour are inputs of the run
Answer(s) ==
    /\ pc[s] = "answer"
    /\ \E r \in {get_answer(q[s], SliderDefault, "simple", e[1], e[2], e[3], e[4]) :
                    e \in BOOLEAN \X {None, "sk-test"}
                          \X {"timeout", "text"} \X {"api_error", "text"}} :
              IF r.raised
              THEN \* the run dies with the exception
                   /\ pc' = [pc EXCEPT ![s] = "end"]
                   /\ UNCHANGED <<answer, delivered>>
              ELSE /\ answer' = [answer EXCEPT ![s] = r.text]
                   /\ delivered' = Delivered(delivered, user[s].id)
                   /\ pc' = [pc EXCEPT ![s] = "pro"]
    /\ UNCHANGED <<usageFile, proFile, clock, user, db, today, used_today,
                   remaining, limit, gate, q, explain, incCalls, pro_db, is_pro, proAtStart,
                   ldb, nInc, ga, sr>>

\* db, today, used_today, q, the button's value and the gate's outcome are not
\* read below line 219:
\* the model keeps them for the usage section of a run only
UsageSectionLeft(s) ==
    /\ db' = [db EXCEPT ![s] = EmptyDict]
    /\ today' = [today EXCEPT ![s] = today_key(0)]
    /\ used_today' = [used_today EXCEPT ![s] = 0]
    /\ gate' = [gate EXCEPT ![s] = None]
    /\ q' = [q EXCEPT ![s] = ""]
    /\ explain' = [explain EXCEPT ![s] = FALSE]
    /\ incCalls' = [incCalls EXCEPT ![s] = 0]
    /\ answer' = [answer EXCEPT ![s] = NoneText]
    /\ proAtStart' = [proAtStart EXCEPT ![s] = FALSE]

\* lines 239-240
ProLoad(s) ==
    /\ pc[s] = "pro"
    /\ pro_db' = [pro_db EXCEPT ![s] = load_pro(proFile)]
    /\ is_pro' = [is_pro EXCEPT ![s] = user[s].id \in DOMAIN load_pro(proFile)]
    /\ pc' = [pc EXCEPT ![s] = "stripe"]
    /\ UsageSectionLeft(s)
    /\ UNCHANGED <<usageFile, proFile, clock, delivered, user, remaining, limit,
                   ldb, nInc, ga, sr>>

\* lines 243-254: handle Stripe return
StripeReturn(s) ==
    /\ pc[s] = "stripe"
    /\ \E got \in QueryGetResults, configured \in BOOLEAN :
          \E obj \in (IF Head(got) # None /\ configured
                      THEN retrieve(Head(got)) ELSE {StripeError}) :
             LET r == stripe_return(pro_db[s], is_pro[s], proFile, user[s].id,
                                    Head(got), configured, obj)
             IN  /\ pro_db' = [pro_db EXCEPT ![s] = r.pro_db]
                 /\ proFile' = r.file
                 /\ is_pro' = [is_pro EXCEPT ![s] = r.is_pro]
    /\ pc' = [pc EXCEPT ![s] = "lift"]
    /\ UNCHANGED <<usageFile, clock, delivered, user, db, today, used_today, remaining,
                   limit, gate, q, explain, incCalls, answer, proAtStart,
                   ldb, nInc, ga, sr>>

\* lines 256-259: lift limits for pro users
LiftLimits(s) ==
    /\ pc[s] = "lift"
    /\ IF is_pro[s]
       THEN /\ limit' = [limit EXCEPT ![s] = ProLimit]
            /\ remaining' = [remaining EXCEPT ![s] = ProRemaining]
       ELSE UNCHANGED <<limit, remaining>>
    /\ pc' = [pc EXCEPT ![s] = "end"]
    /\ UNCHANGED <<usageFile, proFile, clock, delivered, user, db, today, used_today,
                   gate, q, explain, incCalls, answer, pro_db, is_pro, proAtStart,
                   ldb, nInc, ga, sr>>

\* the script ends, or has died with an exception; the next run starts from
\* a fresh module namespace
ScriptEnd(s) ==
    /\ pc[s] \in {"end", "raised"}
    /\ UsageSectionLeft(s)
    /\ remaining' = [remaining EXCEPT ![s] = 0]
    /\ limit' = [limit EXCEPT ![s] = FREE_DAILY_LIMIT]
    /\ pro_db' = [pro_db EXCEPT ![s] = EmptyDict]
    /\ is_pro' = [is_pro EXCEPT ![s] = FALSE]
    /\ pc' = [pc EXCEPT ![s] = "rest"]
    /\ UNCHANGED <<usageFile, proFile, clock, delivered, user, ldb, nInc, ga, sr>>

Next ==
    \/ Tick
    \/ \E s \in Sessions : SignIn(s)
    \/ \E s \in Sessions : RunStart(s)
    \/ \E s \in Sessions : Gate(s)
    \/ \E s \in Sessions : Answer(s)
    \/ \E s \in Sessions : ProLoad(s)
    \/ \E s \in Sessions : StripeReturn(s)
    \/ \E s \in Sessions : LiftLimits(s)
    \/ \E s \in Sessions : ScriptEnd(s)

Spec == Init /\ [][Next]_vars

-----------------------------------------------------------------------------
(* The app on one day, with the answers shown to each identity counted *)

InitQuota ==
    /\ usageFile = AbsentFile
    /\ AppStart
    /\ HarnessIdle
    /\ delivered = [u \in Uids |-> 0]

NextQuota ==
    \/ \E s \in Sessions : SignIn(s)
    \/ \E s \in Sessions : RunStart(s)
    \/ \E s \in Sessions : Gate(s)
    \/ \E s \in Sessions : Answer(s)
    \/ \E s \in Sessions : ProLoad(s)
    \/ \E s \in Sessions : StripeReturn(s)
    \/ \E s \in Sessions : LiftLimits(s)
    \/ \E s \in Sessions : ScriptEnd(s)

SpecQuota == InitQuota /\ [][NextQuota]_vars

-----------------------------------------------------------------------------
(* The usage ledger on its own: one session, whose every run loads the     *)
(* document, calls inc_count once and so saves the whole document          *)

StartLedgers ==
    LET u1 == uhash("mattj")
        u2 == uhash("ann")
        d1 == today_key(1)
        d2 == today_key(2)
    IN  { AbsentFile, GarbageFile, JsonFile(EmptyDict),
          JsonFile(DictSet(EmptyDict, u1, EmptyDict)),
          JsonFile(DictSet(EmptyDict, u1, DictSet(EmptyDict, d1, 2))),
          JsonFile(DictSet(DictSet(EmptyDict, u1, DictSet(EmptyDict, d1, 1)),
                           u2, DictSet(EmptyDict, d2, 3))) }

InitLedger ==
    /\ usageFile = AbsentFile
    /\ AppStart
    /\ delivered = NoneObserved
    /\ ldb \in StartLedgers
    /\ nInc = [start |-> ldb, n |-> NoCounts]
    /\ ga = [phase |-> "idle", question |-> "", points |-> MinDetail,
             tone |-> "simple", USE_OLLAMA |-> FALSE, OPENAI_API_KEY |-> None,
             oOut |-> "text", hOut |-> "text", res |-> NoResult]
    /\ sr = NoReturn

\* lines 103 and 217 of one run, for identity uid on day-key day
LedgerInc(uid, day) ==
    /\ nInc.n[<<uid, day>>] < MaxInc
    /\ ldb' = save_usage(inc_count(load_usage(ldb), uid, day))
    /\ nInc' = [nInc EXCEPT !.n[<<uid, day>>] = @ + 1]
    /\ UNCHANGED <<appVars, ga, sr>>

NextLedger == \E uid \in Uids, day \in DayKeys : LedgerInc(uid, day)

SpecLedger == InitLedger /\ [][NextLedger]_vars

-----------------------------------------------------------------------------
(* get_answer on its own: one call for every environment, provider         *)
(* behaviour and widget value                                              *)

InitAnswer ==
    /\ usageFile = AbsentFile
    /\ AppStart
    /\ delivered = NoneObserved
    /\ ldb = AbsentFile
    /\ nInc = [start |-> AbsentFile, n |-> NoCounts]
    /\ ga \in [phase : {"call"}, question : Questions, points : DetailLevels,
               tone : Tones, USE_OLLAMA : BOOLEAN, OPENAI_API_KEY : ApiKeys,
               oOut : OllamaOutcomes, hOut : OpenAIOutcomes, res : {NoResult}]
    /\ sr = NoReturn

GetAnswerCall ==
    /\ ga.phase = "call"
    /\ ga' = [ga EXCEPT !.phase = "returned",
                        !.res = get_answer(ga.question, ga.points, ga.tone,
                                           ga.USE_OLLAMA, ga.OPENAI_API_KEY,
                                           ga.oOut, ga.hOut)]
    /\ UNCHANGED <<appVars, ldb, nInc, sr>>

NextAnswer == GetAnswerCall

SpecAnswer == InitAnswer /\ [][NextAnswer]_vars

-----------------------------------------------------------------------------
(* The Stripe return on its own: lines 239-254 of one run, for every       *)
(* stored document, identity, query parameter, configuration and outcome   *)
(* of the lookup                                                           *)

StartStores ==
    LET rec == [ts |-> time_time, session |-> "cs_A"]
        u1 == uhash("mattj")
        u2 == uhash("ann")
    IN  { AbsentFile, GarbageFile, JsonFile(EmptyDict),
          JsonFile(DictSet(EmptyDict, u1, rec)),
          JsonFile(DictSet(EmptyDict, u2, rec)),
          JsonFile(DictSet(DictSet(EmptyDict, u1, rec), u2, rec)) }

InitPro ==
    /\ usageFile = AbsentFile
    /\ AppStart
    /\ delivered = NoneObserved
    /\ ldb = AbsentFile
    /\ nInc = [start |-> AbsentFile, n |-> NoCounts]
    /\ ga = [phase |-> "idle", question |-> "", points |-> MinDetail,
             tone |-> "simple", USE_OLLAMA |-> FALSE, OPENAI_API_KEY |-> None,
             oOut |-> "text", hOut |-> "text", res |-> NoResult]
    /\ \E file \in StartStores, uid \in Uids, got \in QueryGetResults,
          configured \in BOOLEAN :
          \E obj \in retrieve(Head(got)) :
             sr = [NoReturn EXCEPT !.phase = "call", !.file = file, !.uid = uid,
                                   !.got = got, !.configured = configured,
                                   !.obj = obj]

StripeReturnCall ==
    /\ sr.phase = "call"
    /\ sr' = [sr EXCEPT !.phase = "returned",
                        !.res = stripe_return(load_pro(sr.file),
                                              sr.uid \in DOMAIN load_pro(sr.file),
                                              sr.file, sr.uid, Head(sr.got),
                                              sr.configured, sr.obj)]
    /\ UNCHANGED <<appVars, ldb, nInc, ga>>

NextPro == StripeReturnCall

SpecPro == InitPro /\ [][NextPro]_vars

-----------------------------------------------------------------------------
(* Properties *)

Entitled(uid) == uid \in DOMAIN load_pro(proFile)

\* the run of session s passes line 210 in this step
GateStep(s) == pc[s] = "gate" /\ pc'[s] # "gate"

\* C1: a request of an identity that holds an entitlement record when the
\* request starts is Allowed by the paywall gate, whatever its usage count of
\* the day is.
C1_EntitledAllowed ==
    \A s \in Sessions : (proAtStart[s] /\ gate[s] # None) => gate[s] = "Allowed"

\* C2: for an identity without entitlement record, with U the count of the
\* day in the loaded ledger and L the daily limit: U < L gives remaining =
\* L - U and Allowed; U >= L gives remaining = 0 and Denied.
C2_GateArithmetic ==
    \A s \in Sessions :
       (pc[s] = "gate" \/ gate[s] # None) /\ ~Entitled(user[s].id) =>
          LET U == used_today[s]
              L == FREE_DAILY_LIMIT
          IN  /\ pc[s] = "gate" => U = get_count(db[s], user[s].id, today[s])
              /\ U < L => remaining[s] = L - U
              /\ U >= L => remaining[s] = 0
              /\ gate[s] # None =>
                    gate[s] = (IF U < L THEN "Allowed" ELSE "Denied")

C2_Witness ==
    /\ gate["s1"] = "Denied" /\ used_today["s1"] = FREE_DAILY_LIMIT
    /\ ~Entitled(user["s1"].id)
    /\ gate["s2"] = "Allowed" /\ used_today["s2"] = 1 /\ remaining["s2"] = 1
    /\ ~Entitled(user["s2"].id)

\* C3: a run whose gate is Denied performs no increment: the step through the
\* gate and every later step of that run leave the persisted ledger and the
\* run's in-memory ledger as they were.
C3_DeniedNoIncrement ==
    [][\A s \in Sessions :
          /\ (GateStep(s) /\ gate'[s] = "Denied") =>
                /\ usageFile' = usageFile
                /\ db'[s] = db[s]
                /\ incCalls'[s] = 0
          /\ (gate[s] = "Denied" /\ pc'[s] # pc[s]) => usageFile' = usageFile]_vars

C3_Witness ==
    \E s \in Sessions :
       /\ gate[s] = "Denied" /\ pc[s] = "pro"
       /\ used_today[s] = FREE_DAILY_LIMIT
       /\ incCalls[s] = 0
       /\ load_usage(usageFile) = db[s]

\* C4: a run that delivers an answer has made exactly one inc_count call, and
\* that call adds 1 to the count the run read for its identity and day and
\* persists the run's ledger, also when sessions of one identity overlap.
C4_OneIncrementPerAnswer ==
    /\ [](\A s \in Sessions : answer[s] # NoneText => incCalls[s] = 1)
    /\ [][\A s \in Sessions :
             /\ incCalls'[s] \in {incCalls[s], incCalls[s] + 1, 0}
             /\ incCalls'[s] = incCalls[s] + 1 =>
                   /\ get_count(db'[s], user[s].id, today[s]) = used_today[s] + 1
                   /\ usageFile' = save_usage(db'[s])
             /\ (answer'[s] # NoneText /\ answer[s] = NoneText) =>
                   incCalls[s] = 1 /\ incCalls'[s] = 1]_vars

\* two overlapping sessions of one identity, both answered, one count persisted
C4_Witness ==
    /\ user["s1"].id = user["s2"].id
    /\ \A s \in Sessions : answer[s] # NoneText /\ incCalls[s] = 1
    /\ today["s1"] = today["s2"]
    /\ get_count(load_usage(usageFile), user["s1"].id, today["s1"]) = 1

HasEntry(file, uid, day) ==
    uid \in DOMAIN load_usage(file) /\ day \in DOMAIN load_usage(file)[uid]

C6_CountEqualsIncrements ==
    \A uid \in Uids, day \in DayKeys :
       ~HasEntry(nInc.start, uid, day) =>
          get_count(load_usage(ldb), uid, day) = nInc.n[<<uid, day>>]

C6_Witness ==
    \E uid \in Uids :
       /\ ~HasEntry(nInc.start, uid, today_key(1))
       /\ ~HasEntry(nInc.start, uid, today_key(2))
       /\ nInc.n[<<uid, today_key(1)>>] = MaxInc
       /\ get_count(load_usage(ldb), uid, today_key(1)) = MaxInc
       /\ nInc.n[<<uid, today_key(2)>>] = 0
       /\ get_count(load_usage(ldb), uid, today_key(2)) = 0
       /\ \E other \in Uids \ {uid} :
             get_count(load_usage(ldb), other, today_key(2)) > 0

Returned == ga.phase = "returned"
NoCredential == ga.OPENAI_API_KEY = None \/ ga.OPENAI_API_KEY = ""
LocalProduced == ga.USE_OLLAMA /\ ga.oOut = "text"
HostedProduced == ~NoCredential /\ ga.hOut = "text"
Template == local_template_answer(ga.question, ga.points, ga.tone)
Occurrences(seq, x) == Cardinality({i \in 1..Len(seq) : seq[i] = x})

\* C7: with the local provider disabled and no hosted credential, get_answer
\* returns the template output, raises nothing and makes no network call.
C7_OfflineTemplate ==
    (Returned /\ ~ga.USE_OLLAMA /\ NoCredential) =>
       /\ ga.res.text = Template
       /\ ~ga.res.raised
       /\ ga.res.net = <<>>

C7_Witness ==
    /\ Returned /\ ~ga.USE_OLLAMA /\ ga.OPENAI_API_KEY = None
    /\ strip(ga.question) # "" /\ ga.points = MaxDetail
    /\ ga.res.text = Template /\ ga.res.net = <<>>

\* C8: local -> hosted -> template, first success wins: local text is the
\* result and the hosted provider is then not attempted; the template is the
\* result only when neither provider produced text; no provider is attempted
\* twice.
C8_PriorityChain ==
    Returned =>
       /\ LocalProduced =>
             /\ ga.res.text = OllamaText
             /\ Occurrences(ga.res.called, "openai") = 0
             /\ Occurrences(ga.res.net, "openai") = 0
       /\ (~LocalProduced /\ HostedProduced) => ga.res.text = OpenAIText
       /\ ga.res.text = Template => (~LocalProduced /\ ~HostedProduced)
       /\ ga.res.source = "template" <=> (~LocalProduced /\ ~HostedProduced)
       /\ \A p \in {"ollama", "openai"} :
             /\ Occurrences(ga.res.called, p) <= 1
             /\ Occurrences(ga.res.net, p) <= 1
       /\ ~ga.USE_OLLAMA => Occurrences(ga.res.net, "ollama") = 0

C8_Witness ==
    /\ Returned /\ LocalProduced /\ HostedProduced
    /\ ga.res.text = OllamaText /\ ga.res.called = <<"ollama">>

\* C9: whatever the providers do, get_answer returns a text and raises
\* nothing: a provider that fails or returns nothing is passed over, and the
\* template is returned when no provider produced text.
C9_NeverRaises ==
    /\ ga.phase = "call" => ENABLED GetAnswerCall
    /\ Returned =>
          /\ ~ga.res.raised
          /\ ga.res.text # NoneText
          /\ ga.res.text # <<>>
          /\ ga.res.text \in {OllamaText, OpenAIText, Template}
          /\ (~LocalProduced /\ ~HostedProduced) => ga.res.text = Template

C9_Witness ==
    /\ Returned /\ ga.USE_OLLAMA /\ ga.oOut = "timeout"
    /\ ~NoCredential /\ ga.hOut = "api_error"
    /\ strip(ga.question) # ""
    /\ ga.res.text = Template /\ Len(ga.res.notices) = 2

NoKeyNotice == <<"No OpenAI API key set.">>

\* C10 as claimed: without hosted credential the hosted provider is skipped
\* silently: no hosted call, no notice for the skip, the template is returned.
C10_SilentSkip ==
    (Returned /\ NoCredential /\ ~LocalProduced) =>
       /\ Occurrences(ga.res.net, "openai") = 0
       /\ Occurrences(ga.res.notices, NoKeyNotice) = 0
       /\ ga.res.text = Template

\* C10: without hosted credential no hosted call is made and nothing is
\* raised; the reason "No OpenAI API key set." is shown as an st.info notice,
\* once and last, and the template is returned.
C10_SkipWithNotice ==
    (Returned /\ NoCredential /\ ~LocalProduced) =>
       /\ Occurrences(ga.res.net, "openai") = 0
       /\ ~ga.res.raised
       /\ Occurrences(ga.res.notices, NoKeyNotice) = 1
       /\ ga.res.notices[Len(ga.res.notices)] = NoKeyNotice
       /\ ga.res.text = Template

C10_Witness ==
    /\ Returned /\ ga.OPENAI_API_KEY = "" /\ ga.USE_OLLAMA /\ ga.oOut = "empty_text"
    /\ ga.res.notices = <<NoKeyNotice>>
    /\ ga.res.text = Template

-----------------------------------------------------------------------------
(* Properties of the premium store *)

\* the run of session s passes lines 243-254 in this step
StripeReturnStep(s) == pc[s] = "stripe" /\ pc'[s] = "lift"

\* the record of identity uid in a stored document: <<record>>, or <<>>
RecordOf(file, uid) ==
    IF uid \in DOMAIN load_pro(file) THEN <<load_pro(file)[uid]>> ELSE <<>>

\* C11: the Stripe return handler run for an identity that is entitled already
\* (in the store and in the run's view) leaves it entitled, with a record in
\* the store, and changes no other identity's record.
C11_GrantIdempotent ==
    [][\A s \in Sessions :
          (StripeReturnStep(s) /\ is_pro[s] /\ Entitled(user[s].id)) =>
             /\ is_pro'[s]
             /\ RecordOf(proFile', user[s].id) # <<>>
             /\ \A u \in Uids \ {user[s].id} :
                   RecordOf(proFile', u) = RecordOf(proFile, u)]_vars

\* the lookup of the run's session reference raised
ProviderRaised == sr.obj = StripeError

\* the session object satisfies none of the three predicates of line 248
NoneOfThree ==
    /\ sr.obj.payment_status # "paid"
    /\ sr.obj.status # "complete"
    /\ ~(sr.obj.mode = "subscription" /\ sr.obj.subscription # None)

\* C12: a Stripe return whose session object satisfies none of the three
\* predicates, or whose lookup raised, grants nothing: the stored document is
\* the one before, is_pro keeps its value, no success is shown (an st.info on
\* an error) and the run goes on.
C12_NoGrantOnRejection ==
    /\ sr.phase = "call" => ENABLED StripeReturnCall
    /\ (sr.phase = "returned" /\ sr.res.looked_up
           /\ (ProviderRaised \/ NoneOfThree)) =>
          /\ sr.res.file = sr.file
          /\ sr.res.pro_db = load_pro(sr.file)
          /\ sr.res.is_pro = (sr.uid \in DOMAIN load_pro(sr.file))
          /\ sr.res.shown = (IF ProviderRaised THEN "info" ELSE "none")

C12_Witness ==
    /\ sr.phase = "returned" /\ sr.res.looked_up
    /\ ~ProviderRaised /\ NoneOfThree
    /\ sr.obj.mode = "subscription"
    /\ sr.uid = uhash("ann")
    /\ DOMAIN load_pro(sr.file) = {uhash("mattj")}
    /\ sr.res.file = sr.file /\ ~sr.res.is_pro

\* C13: an entitlement record is never deleted: no step of any session takes
\* an identity's record out of the persisted store.
C13_RecordNeverDeleted ==
    [][\A u \in Uids :
          RecordOf(proFile, u) # <<>> => RecordOf(proFile', u) # <<>>]_vars

\* C20: one payment session reference entitles at most one identity: no two
\* identities hold records with the same session reference.
C20_OneIdentityPerSession ==
    \A u1 \in DOMAIN load_pro(proFile), u2 \in DOMAIN load_pro(proFile) :
       load_pro(proFile)[u1].session = load_pro(proFile)[u2].session => u1 = u2

-----------------------------------------------------------------------------
(* Properties of the usage ledger under overlapping runs *)

\* C14: the persisted count of an (identity, day) that has an entry never
\* gets smaller, whatever step any session takes.
C14_CountsNeverDecrease ==
    [][\A u \in Uids, day \in DayKeys :
          HasEntry(usageFile, u, day) =>
             get_count(load_usage(usageFile'), u, day)
                >= get_count(load_usage(usageFile), u, day)]_vars

\* the entry of identity uid in a stored ledger: its day -> count dict
EntryOf(file, uid) == DictGet(load_usage(file), uid, EmptyDict)

\* C19: the step in which a run increments the count of its identity (line
\* 217, with the whole-document write of line 89) leaves the persisted counts
\* of every other identity as they were.
C19_IncrementFrame ==
    [][\A s \in Sessions :
          incCalls'[s] = incCalls[s] + 1 =>
             \A u \in Uids \ {user[s].id} :
                EntryOf(usageFile', u) = EntryOf(usageFile, u)]_vars

-----------------------------------------------------------------------------
(* Properties of the Explain handler *)

\* C15: a click on Explain with an empty or whitespace-only question is
\* turned away before inc_count and before get_answer: the step leaves the
\* persisted ledger and the run's ledger as they were, and the run makes no
\* inc_count call, never reaches get_answer and shows no answer.
C15_BlankRejected ==
    /\ [](\A s \in Sessions :
             (explain[s] /\ strip(q[s]) = "") =>
                /\ incCalls[s] = 0
                /\ pc[s] # "answer"
                /\ answer[s] = NoneText)
    /\ [][\A s \in Sessions :
             (GateStep(s) /\ explain'[s] /\ strip(q'[s]) = "") =>
                /\ usageFile' = usageFile
                /\ db'[s] = db[s]
                /\ pc'[s] = "pro"]_vars

C15_Witness ==
    \E s \in Sessions :
       /\ explain[s] /\ q[s] = "   " /\ pc[s] = "pro"
       /\ gate[s] = "Allowed" /\ remaining[s] = 1
       /\ get_count(load_usage(usageFile), user[s].id, today[s]) = used_today[s]
       /\ answer[s] = NoneText

-----------------------------------------------------------------------------
(* Properties of reading the ledger *)

\* C16: reading the ledger fails open: whatever the stored document is, no
\* run dies in lines 103-105, and a run that loaded anything else than a
\* ledger of identities goes on with a used count of 0.
C16_ReadFailsOpen ==
    \A s \in Sessions :
       /\ pc[s] # "raised"
       /\ (pc[s] = "gate" /\ db[s] \in {EmptyDict, NotADict}) => used_today[s] = 0

-----------------------------------------------------------------------------
(* Properties of the template *)

FromTemplate == Returned /\ ga.res.source = "template"

\* the lines of text that are key-point bullets
KeyPointLines(text) ==
    {i \in 1..Len(text) :
        /\ Len(text[i]) >= 4
        /\ text[i][2] = "- "
        /\ text[i][4] = ". Key idea "}

Unindent(line) ==
    IF Len(line) > 0 /\ line[1] = Indent THEN Tail(line) ELSE line

\* text has exactly n key-point bullets, numbered 1..n, then the five steps
\* under their heading, then the three study items under theirs
TemplateLayout(text, n) ==
    /\ Len(text) = n + 17
    /\ KeyPointLines(text) = 5..(n + 4)
    /\ \A k \in 1..n : text[k + 4][3] = NumStr(k) /\ text[k + 4][5] = NumStr(k)
    /\ text[n + 5] = <<>>
    /\ Unindent(text[n + 6]) = <<"**How to solve / study this quickly:**">>
    /\ Len(steps) = 5
    /\ \A j \in 1..5 : Unindent(text[n + 6 + j]) = steps[j]
    /\ text[n + 12] = <<>>
    /\ Unindent(text[n + 13]) = <<"**Mini study plan (5-10 minutes):**">>
    /\ Len(study) = 3
    /\ \A j \in 1..3 : Unindent(text[n + 13 + j]) = study[j]

\* C17 as claimed: for every non-empty question and detail level in 3..8 the
\* template output is the same for the same inputs and has exactly
\* detail_level key-point bullets, then the 5 steps, then the 3 study items.
C17_NonEmptyQuestionLayout ==
    (FromTemplate /\ ga.question # "" /\ ga.points \in MinDetail..MaxDetail) =>
       /\ ga.res.text = Template
       /\ TemplateLayout(ga.res.text, ga.points)

\* C17: the template output is the same for the same inputs; for a question
\* with a character that is not whitespace and a detail level in 3..8 it has
\* exactly detail_level key-point bullets, then the 5 steps, then the 3 study
\* items; for an empty or whitespace-only question it is the one line "Type
\* something first", without bullets.
C17_TemplateLayout ==
    (FromTemplate /\ ga.points \in MinDetail..MaxDetail) =>
       /\ ga.res.text = Template
       /\ strip(ga.question) # "" => TemplateLayout(ga.res.text, ga.points)
       /\ strip(ga.question) = "" =>
             /\ ga.res.text = << <<"Type something first">> >>
             /\ KeyPointLines(ga.res.text) = {}

C17_Witness ==
    /\ FromTemplate /\ ga.question = " osmosis " /\ ga.points = MaxDetail
    /\ ga.tone = "exam-ready"
    /\ Cardinality(KeyPointLines(ga.res.text)) = MaxDetail
    /\ TemplateLayout(ga.res.text, MaxDetail)

-----------------------------------------------------------------------------
(* Properties of the quota under overlapping runs *)

\* C18: an identity without entitlement record is shown at most
\* FREE_DAILY_LIMIT answers on one day, however the runs of its sessions
\* interleave.
C18_AtMostLimitAnswers ==
    \A u \in DOMAIN delivered :
       ~Entitled(u) => delivered[u] <= FREE_DAILY_LIMIT

====
